---- MODULE Spec2Model ----
(***************************************************************************)
(* Validators of src/index.ts, modelled as terms, and their evaluation on  *)
(* JavaScript values.  A behaviour constructs one validator, receives one  *)
(* input value and calls the validator on it.                              *)
(***************************************************************************)
EXTENDS Integers, Sequences, FiniteSets, TLC

\* ------------------------------------------------------------------ bounds
MaxArrayLen == 2
MaxProps == 2
MaxList == 2
MaxShape == 2
MaxBound == 2
MaxCalls == 2
MaxRegexpLen == 2
MaxNumericLen == 3
MaxEmailLen == 5
MaxPad == 1

\* ------------------------------------------------------- JavaScript values
\* A value is a record: kind is its runtime kind, num/str the payload of a
\* number/string, items the elements of an array, props the own enumerable
\* string-keyed properties of a plain object, in insertion order.
Value(kind, num, str, items, props) ==
  [kind |-> kind, num |-> num, str |-> str, items |-> items, props |-> props]

Undefined == Value("undefined", 0, "", <<>>, <<>>)
Null == Value("null", 0, "", <<>>, <<>>)
Num(n) == Value("number", n, "", <<>>, <<>>)
NaN == Value("number", 0, "NaN", <<>>, <<>>)
Str(s) == Value("string", 0, s, <<>>, <<>>)
Bool(b) == Value("boolean", IF b THEN 1 ELSE 0, "", <<>>, <<>>)
Sym == Value("symbol", 0, "", <<>>, <<>>)
BigInt(n) == Value("bigint", n, "", <<>>, <<>>)
Func == Value("function", 0, "", <<>>, <<>>)
Arr(items) == Value("array", 0, "", items, <<>>)
Obj(props) == Value("object", 0, "", <<>>, props)

\* typeof val
TypeOf(val) ==
  IF val.kind \in {"null", "array", "object"} THEN "object" ELSE val.kind

\* Array.isArray(val)
IsArray(val) == val.kind = "array"

\* a <= b on numbers: every comparison with NaN is false
Lte(a, b) == a.str # "NaN" /\ b.str # "NaN" /\ a.num <= b.num

\* the property key of array index i (0-based): String(i)
IndexKey(i) == <<"0", "1", "2", "3", "4", "5", "6", "7", "8", "9">>[i + 1]

\* Object.entries(val) of a non-null object-kind value
ObjectEntries(val) ==
  IF IsArray(val)
  THEN [i \in 1..Len(val.items) |-> [key |-> IndexKey(i - 1), value |-> val.items[i]]]
  ELSE val.props

\* Object.keys(val)
ObjectKeys(val) == [i \in 1..Len(ObjectEntries(val)) |-> ObjectEntries(val)[i].key]

\* the prototype of a plain object or an array: Object.prototype and
\* Array.prototype, neither with an own enumerable key
Prototype(val) == IF IsArray(val) THEN Arr(<<>>) ELSE Obj(<<>>)

\* val[key] of a non-null object-kind value: the own property, else what
\* the prototype chain gives (the __proto__ accessor), else undefined
Get(val, key) ==
  LET entries == ObjectEntries(val)
      hits == {i \in 1..Len(entries) : entries[i].key = key}
  IN IF hits # {} THEN entries[CHOOSE i \in hits : TRUE].value
     ELSE IF key = "__proto__" THEN Prototype(val)
     ELSE Undefined

\* ------------------------------------------------------------- validators
\* A validator is a term: op names the exported validator or factory, vs
\* its child validators, keys the keys of a shape (vs[i] validates keys[i]),
\* min/max the bounds (the value undefined when omitted), exact the flag.
Validator(op, vs, keys, min, max, exact) ==
  [op |-> op, vs |-> vs, keys |-> keys, min |-> min, max |-> max, exact |-> exact]

Atomic(op) == Validator(op, <<>>, <<>>, Undefined, Undefined, FALSE)

RECURSIVE Apply(_, _)

\* $number
number(val) == TypeOf(val) = "number"

\* $numberRange with min < val in place of min <= val
numberRangeExclusiveMin(min, max, val) ==
  number(val) /\ (~number(min) \/ (Lte(min, val) /\ min.num # val.num))
              /\ (~number(max) \/ Lte(val, max))

\* $numberRange with || in place of && between the two bound tests
numberRangeEitherBound(min, max, val) ==
  number(val) /\ ((~number(min) \/ Lte(min, val)) \/ (~number(max) \/ Lte(val, max)))

\* $numberRange({min, max})
numberRange(min, max, val) ==
  number(val) /\ (~number(min) \/ Lte(min, val)) /\ (~number(max) \/ Lte(val, max))

\* $string
string(val) == TypeOf(val) = "string"

\* $null with val == null in place of val === null
nullLoose(val) == val = Null \/ val = Undefined

\* $null
null(val) == val = Null

\* $undefined
undefined(val) == val = Undefined

\* $any
any(val) == TRUE

\* $optional with val === null in place of val == null
optionalStrictNull(validator, val) == val = Null \/ Apply(validator, val)

\* $optional(validator): val == null is loose equality
optional(validator, val) == (val = Null \/ val = Undefined) \/ Apply(validator, val)

\* $nullable with val == null in place of $null(val)
nullableLooseNull(validator, val) ==
  (val = Null \/ val = Undefined) \/ Apply(validator, val)

\* $nullable(validator)
nullable(validator, val) == null(val) \/ Apply(validator, val)

\* $symbol
symbol(val) == TypeOf(val) = "symbol"

\* $bigint
bigint(val) == TypeOf(val) = "bigint"

\* $boolean
boolean(val) == TypeOf(val) = "boolean"

\* the loop of $intersection: every validator is called, failed is sticky
RECURSIVE intersectionLoop(_, _, _, _)
intersectionLoop(validators, val, i, failed) ==
  IF i > Len(validators) THEN ~failed
  ELSE intersectionLoop(validators, val, i + 1,
                        IF ~Apply(validators[i], val) THEN TRUE ELSE failed)

\* $intersection(validators)
intersection(validators, val) == intersectionLoop(validators, val, 1, FALSE)

\* the loop of $union: returns at the first validator that accepts
RECURSIVE unionLoop(_, _, _)
unionLoop(validators, val, i) ==
  IF i > Len(validators) THEN FALSE
  ELSE IF Apply(validators[i], val) THEN TRUE
  ELSE unionLoop(validators, val, i + 1)

\* $union returning the verdict of its first validator only
unionFirstOnly(validators, val) ==
  Len(validators) > 0 /\ Apply(validators[1], val)

\* $union(validators)
union(validators, val) == unionLoop(validators, val, 1)

\* the loop of $object without the skip of the key __proto__
RECURSIVE objectLoopNoSkip(_, _, _, _, _, _)
objectLoopNoSkip(keys, vs, val, i, failed, unchecked) ==
  IF i > Len(keys) THEN [failed |-> failed, unchecked |-> unchecked]
  ELSE objectLoopNoSkip(keys, vs, val, i + 1,
                        IF ~Apply(vs[i], Get(val, keys[i])) THEN TRUE ELSE failed,
                        unchecked \ {keys[i]})

\* the loop of $object over Object.entries(validatorMap): the state is the
\* failed flag and the set unchecked
RECURSIVE objectLoop(_, _, _, _, _, _)
objectLoop(keys, vs, val, i, failed, unchecked) ==
  IF i > Len(keys) THEN [failed |-> failed, unchecked |-> unchecked]
  ELSE IF keys[i] = "__proto__"
  THEN objectLoop(keys, vs, val, i + 1, failed, unchecked)
  ELSE objectLoop(keys, vs, val, i + 1,
                  IF ~Apply(vs[i], Get(val, keys[i])) THEN TRUE ELSE failed,
                  unchecked \ {keys[i]})

\* $object that requires exactness whatever the flag
objectAlwaysExact(keys, vs, exact, val) ==
  IF TypeOf(val) # "object" \/ (val = Null \/ val = Undefined) THEN FALSE
  ELSE LET end == objectLoop(keys, vs, val, 1, FALSE,
                             {ObjectKeys(val)[i] : i \in 1..Len(ObjectKeys(val))})
       IN IF end.failed THEN FALSE
          ELSE Cardinality(end.unchecked) = 0

\* $object(validatorMap, exact)
object(keys, vs, exact, val) ==
  IF TypeOf(val) # "object" \/ (val = Null \/ val = Undefined) THEN FALSE
  ELSE LET end == objectLoop(keys, vs, val, 1, FALSE,
                             {ObjectKeys(val)[i] : i \in 1..Len(ObjectKeys(val))})
       IN IF end.failed THEN FALSE
          ELSE IF exact THEN Cardinality(end.unchecked) = 0
          ELSE TRUE

\* the loop of $array over val.values()
RECURSIVE arrayLoop(_, _, _, _)
arrayLoop(child, items, i, failed) ==
  IF i > Len(items) THEN ~failed
  ELSE arrayLoop(child, items, i + 1,
                 IF ~Apply(child, items[i]) THEN TRUE ELSE failed)

\* $array(child)
array(child, val) ==
  IF ~IsArray(val) THEN FALSE ELSE arrayLoop(child, val.items, 1, FALSE)

\* $arrayLength with val.length < max in place of val.length <= max
arrayLengthExclusiveMax(max, min, child, val) ==
  array(child, val) /\ (min = Undefined \/ Len(val.items) >= min.num)
                    /\ (max = Undefined \/ Len(val.items) < max.num)

\* $arrayLength({max, min, child})
arrayLength(max, min, child, val) ==
  array(child, val) /\ (min = Undefined \/ Len(val.items) >= min.num)
                    /\ (max = Undefined \/ Len(val.items) <= max.num)

\* the loop of $record without the skip of the key __proto__
RECURSIVE recordLoopNoSkip(_, _, _, _)
recordLoopNoSkip(valueValidator, entries, i, failed) ==
  IF i > Len(entries) THEN ~failed
  ELSE recordLoopNoSkip(valueValidator, entries, i + 1,
                        IF ~Apply(valueValidator, entries[i].value) THEN TRUE ELSE failed)

\* the loop of $record over Object.entries(val)
RECURSIVE recordLoop(_, _, _, _)
recordLoop(valueValidator, entries, i, failed) ==
  IF i > Len(entries) THEN ~failed
  ELSE IF entries[i].key = "__proto__"
  THEN recordLoop(valueValidator, entries, i + 1, failed)
  ELSE LET keyValidator == <<Atomic("string"), Atomic("number"), Atomic("symbol")>>
           failedKey == IF ~union(keyValidator, Str(entries[i].key)) THEN TRUE ELSE failed
           failedValue == IF ~Apply(valueValidator, entries[i].value) THEN TRUE ELSE failedKey
       IN recordLoop(valueValidator, entries, i + 1, failedValue)

\* $record(valueValidator)
record(valueValidator, val) ==
  IF TypeOf(val) # "object" \/ val = Null THEN FALSE
  ELSE recordLoop(valueValidator, ObjectEntries(val), 1, FALSE)

\* the loop of $tuple over val.entries()
RECURSIVE tupleLoop(_, _, _, _)
tupleLoop(children, items, i, failed) ==
  IF i > Len(items) THEN ~failed
  ELSE tupleLoop(children, items, i + 1,
                 IF ~Apply(children[i], items[i]) THEN TRUE ELSE failed)

\* $tuple that rejects only the arrays longer than children
tupleAtMostLength(children, val) ==
  IF ~IsArray(val) THEN FALSE
  ELSE IF Len(val.items) > Len(children) THEN FALSE
  ELSE tupleLoop(children, val.items, 1, FALSE)

\* $tuple(children)
tuple(children, val) ==
  IF ~IsArray(val) THEN FALSE
  ELSE IF Len(val.items) # Len(children) THEN FALSE
  ELSE tupleLoop(children, val.items, 1, FALSE)

\* ----------------------------------------------------------------- strings
\* A string of at most one character is Str(c); a longer string carries its
\* characters, in order, in the field chars.
Text(chars) ==
  IF Len(chars) = 0 THEN Str("")
  ELSE IF Len(chars) = 1 THEN Str(chars[1])
  ELSE [kind |-> "string", num |-> 0, str |-> "", items |-> <<>>, props |-> <<>>,
        chars |-> chars]

\* the characters of a string value
Chars(val) ==
  IF "chars" \in DOMAIN val THEN val.chars
  ELSE IF val.str = "" THEN <<>>
  ELSE <<val.str>>

DecimalDigits == {"0", "1", "2", "3", "4", "5", "6", "7", "8", "9"}
LowerHexDigits == DecimalDigits \cup {"a", "b", "c", "d", "e", "f"}
HexDigits == LowerHexDigits \cup {"A", "B", "C", "D", "E", "F"}
WhiteSpace == {" "}

\* $const(def): val === def, which no NaN satisfies
const(def, val) == val = def /\ val # NaN

\* the index of the first character of chars at or after i that is not
\* white space (Len(chars) + 1 when there is none)
RECURSIVE SkipWhiteSpace(_, _)
SkipWhiteSpace(chars, i) ==
  IF i > Len(chars) \/ chars[i] \notin WhiteSpace THEN i
  ELSE SkipWhiteSpace(chars, i + 1)

\* Number.isNaN(parseInt(chars)) for a parseInt that reads no sign
ParseIntNoSignIsNaN(chars) ==
  LET i == SkipWhiteSpace(chars, 1)
      hex == i + 1 <= Len(chars) /\ chars[i] = "0" /\ chars[i + 1] \in {"x", "X"}
      k == IF hex THEN i + 2 ELSE i
  IN k > Len(chars) \/ chars[k] \notin (IF hex THEN HexDigits ELSE DecimalDigits)

\* Number.isNaN(parseInt(chars)): parseInt without a radix skips leading
\* white space and one sign, reads hexadecimal after a prefix 0x or 0X and
\* decimal otherwise, and gives NaN when no digit of the radix comes next
ParseIntIsNaN(chars) ==
  LET i == SkipWhiteSpace(chars, 1)
      j == IF i <= Len(chars) /\ chars[i] \in {"+", "-"} THEN i + 1 ELSE i
      hex == j + 1 <= Len(chars) /\ chars[j] = "0" /\ chars[j + 1] \in {"x", "X"}
      k == IF hex THEN j + 2 ELSE j
  IN k > Len(chars) \/ chars[k] \notin (IF hex THEN HexDigits ELSE DecimalDigits)

\* $numericString
numericString(val) ==
  IF ~string(val) THEN FALSE ELSE ~ParseIntIsNaN(Chars(val))

\* ------------------------------------------------------ regular expressions
\* A RegExp object: items are the pattern's atoms, each a character class
\* cls, repeated one or more times when many; start and end are the
\* assertions ^ and $; global and sticky are the flags g and y.
RegExp(items, start, end, global, sticky) ==
  [items |-> items, start |-> start, end |-> end, global |-> global, sticky |-> sticky]

\* n atoms of class cls, each matching one character
Rep(cls, n) == [i \in 1..n |-> [cls |-> cls, many |-> FALSE]]

\* one atom of class cls matching one or more characters
Plus(cls) == <<[cls |-> cls, many |-> TRUE]>>

\* whether the character c is in the class cls: [0-9a-f], [^\s@], or the
\* literal character cls
ClassHas(cls, c) ==
  CASE cls = "[0-9a-f]" -> c \in LowerHexDigits
    [] cls = "[^\\s@]" -> c \notin WhiteSpace \cup {"@"}
    [] OTHER -> c = cls

\* the positions at which a match of items[k..] that begins at chars[i] can
\* end (the index after its last character)
RECURSIVE MatchEnds(_, _, _, _)
MatchEnds(items, k, chars, i) ==
  IF k > Len(items) THEN {i}
  ELSE IF i > Len(chars) THEN {}
  ELSE IF ~ClassHas(items[k].cls, chars[i]) THEN {}
  ELSE MatchEnds(items, k + 1, chars, i + 1)
         \cup (IF items[k].many THEN MatchEnds(items, k, chars, i + 1) ELSE {})

\* the ends of the matches of regexp that begin at chars[i]
EndsAt(regexp, chars, i) ==
  {e \in MatchEnds(regexp.items, 1, chars, i) : regexp.end => e = Len(chars) + 1}

\* regexp.test(chars) with regexp.lastIndex = lastIndex: the verdict and the
\* lastIndex it leaves.  Without g and y the search starts at 0 and
\* lastIndex is left alone; with g or y it starts at lastIndex and lastIndex
\* becomes the end of the match, or 0 when there is none; with y the match
\* must begin at lastIndex.  Quantifiers are greedy: the match taken at a
\* start is the longest one.
RegExpTest(regexp, lastIndex, chars) ==
  LET flagged == regexp.global \/ regexp.sticky
      from == IF flagged THEN lastIndex ELSE 0
      starts == {i \in (from + 1)..(Len(chars) + 1) :
                   /\ EndsAt(regexp, chars, i) # {}
                   /\ regexp.start => i = 1
                   /\ regexp.sticky => i = from + 1}
      first == CHOOSE i \in starts : \A j \in starts : i <= j
      ends == EndsAt(regexp, chars, first)
      last == CHOOSE e \in ends : \A f \in ends : f <= e
  IN IF starts = {}
     THEN [ret |-> FALSE, lastIndex |-> IF flagged THEN 0 ELSE lastIndex]
     ELSE [ret |-> TRUE, lastIndex |-> IF flagged THEN last - 1 ELSE lastIndex]

\* $regexp(regexp), called with regexp.lastIndex = lastIndex
regexp(re, lastIndex, val) ==
  IF TypeOf(val) = "string"
  THEN RegExpTest(re, lastIndex, Chars(val))
  ELSE [ret |-> FALSE, lastIndex |-> lastIndex]

\* /^[^\s@]+@[^\s@]+\.[^\s@]+$/
EmailRegExp ==
  RegExp(Plus("[^\\s@]") \o Rep("@", 1) \o Plus("[^\\s@]") \o Rep(".", 1) \o Plus("[^\\s@]"),
         TRUE, TRUE, FALSE, FALSE)

\* the pattern of $uuid between ^ and $
UuidRegExpAnchored ==
  RegExp(Rep("[0-9a-f]", 8) \o Rep("-", 1) \o Rep("[0-9a-f]", 4) \o Rep("-", 1)
           \o Rep("[0-9a-f]", 4) \o Rep("-", 1) \o Rep("[0-9a-f]", 4) \o Rep("-", 1)
           \o Rep("[0-9a-f]", 12),
         TRUE, TRUE, FALSE, FALSE)

\* /([0-9a-f]{8})-([0-9a-f]{4})-([0-9a-f]{4})-([0-9a-f]{4})-([0-9a-f]{12})/
UuidRegExp ==
  RegExp(Rep("[0-9a-f]", 8) \o Rep("-", 1) \o Rep("[0-9a-f]", 4) \o Rep("-", 1)
           \o Rep("[0-9a-f]", 4) \o Rep("-", 1) \o Rep("[0-9a-f]", 4) \o Rep("-", 1)
           \o Rep("[0-9a-f]", 12),
         FALSE, FALSE, FALSE, FALSE)

\* $email
email(val) == regexp(EmailRegExp, 0, val).ret

\* $uuid
uuid(val) == regexp(UuidRegExp, 0, val).ret

\* $url without the try/catch around new URL(val)
urlNoCatch(val, parses) ==
  IF TypeOf(val) # "string" THEN [ret |-> FALSE, raised |-> FALSE, parsed |-> FALSE]
  ELSE IF parses THEN [ret |-> TRUE, raised |-> FALSE, parsed |-> TRUE]
  ELSE [ret |-> FALSE, raised |-> TRUE, parsed |-> TRUE]

\* $url, where parses tells whether the host's new URL(val) succeeds: ret is
\* the value returned, raised whether an exception leaves the call, parsed
\* whether new URL was called
url(val, parses) ==
  IF TypeOf(val) # "string" THEN [ret |-> FALSE, raised |-> FALSE, parsed |-> FALSE]
  ELSE IF parses THEN [ret |-> TRUE, raised |-> FALSE, parsed |-> TRUE]
  ELSE [ret |-> FALSE, raised |-> FALSE, parsed |-> TRUE]

\* $enum(enums)
enum(enums, input) ==
  IF ~string(input) THEN FALSE
  ELSE \E i \in 1..Len(enums) : enums[i] = Chars(input)

\* ------------------------------------------------------------- call traces
\* the calls the loop of $intersection makes, in order: at is the position
\* of the validator called, ok what it returned
RECURSIVE intersectionCallsLoop(_, _, _, _)
intersectionCallsLoop(validators, val, i, calls) ==
  IF i > Len(validators) THEN calls
  ELSE intersectionCallsLoop(validators, val, i + 1,
         Append(calls, [at |-> i, ok |-> Apply(validators[i], val)]))

\* the calls of an $intersection that stops at the first rejection
intersectionCallsUntilRejection(validators, val) ==
  LET all == intersectionCallsLoop(validators, val, 1, <<>>)
      rejected == {i \in 1..Len(all) : ~all[i].ok}
  IN IF rejected = {} THEN all
     ELSE SubSeq(all, 1, CHOOSE i \in rejected : \A j \in rejected : i <= j)

intersectionCalls(validators, val) == intersectionCallsLoop(validators, val, 1, <<>>)

\* the calls the loop of $union makes, in order
RECURSIVE unionCallsLoop(_, _, _, _)
unionCallsLoop(validators, val, i, calls) ==
  IF i > Len(validators) THEN calls
  ELSE IF Apply(validators[i], val) THEN Append(calls, [at |-> i, ok |-> TRUE])
  ELSE unionCallsLoop(validators, val, i + 1, Append(calls, [at |-> i, ok |-> FALSE]))

\* the calls of a $union that does not stop at the first acceptance
unionCallsAll(validators, val) == intersectionCallsLoop(validators, val, 1, <<>>)

unionCalls(validators, val) == unionCallsLoop(validators, val, 1, <<>>)

\* the calls the loop of $object makes, in order: at is the key whose
\* validator is called
RECURSIVE objectCallsLoop(_, _, _, _, _)
objectCallsLoop(keys, vs, val, i, calls) ==
  IF i > Len(keys) THEN calls
  ELSE IF keys[i] = "__proto__" THEN objectCallsLoop(keys, vs, val, i + 1, calls)
  ELSE objectCallsLoop(keys, vs, val, i + 1,
         Append(calls, [at |-> keys[i], ok |-> Apply(vs[i], Get(val, keys[i]))]))

objectCalls(keys, vs, val) ==
  IF TypeOf(val) # "object" \/ (val = Null \/ val = Undefined) THEN <<>>
  ELSE objectCallsLoop(keys, vs, val, 1, <<>>)

\* calling the validator v on val
Apply(v, val) ==
  CASE v.op = "number" -> number(val)
    [] v.op = "numberRange" -> numberRange(v.min, v.max, val)
    [] v.op = "string" -> string(val)
    [] v.op = "null" -> null(val)
    [] v.op = "undefined" -> undefined(val)
    [] v.op = "any" -> any(val)
    [] v.op = "optional" -> optional(v.vs[1], val)
    [] v.op = "nullable" -> nullable(v.vs[1], val)
    [] v.op = "symbol" -> symbol(val)
    [] v.op = "bigint" -> bigint(val)
    [] v.op = "boolean" -> boolean(val)
    [] v.op = "intersection" -> intersection(v.vs, val)
    [] v.op = "union" -> union(v.vs, val)
    [] v.op = "object" -> object(v.keys, v.vs, v.exact, val)
    [] v.op = "array" -> array(v.vs[1], val)
    [] v.op = "arrayLength" -> arrayLength(v.max, v.min, v.vs[1], val)
    [] v.op = "record" -> record(v.vs[1], val)
    [] v.op = "tuple" -> tuple(v.vs, val)
    [] v.op = "const" -> const(v.def, val)
    [] v.op = "numericString" -> numericString(val)
    [] v.op = "regexp" -> regexp(v.regexp, 0, val).ret
    [] v.op = "email" -> email(val)
    [] v.op = "uuid" -> uuid(val)
    [] v.op = "enum" -> enum(v.enums, val)

\* ------------------------------------------------------------------ inputs
\* all sequences over S of length at most n
SeqsUpTo(S, n) == UNION {[1..k -> S] : k \in 0..n}

\* the sequences of SeqsUpTo(S, n) without a repeated element
DistinctSeqs(S, n) ==
  {s \in SeqsUpTo(S, n) : \A i, j \in 1..Len(s) : s[i] = s[j] => i = j}

Numbers == {Num(n) : n \in -1..(MaxBound + 1)} \cup {NaN}

Scalars ==
  Numbers \cup {Undefined, Null, Str(""), Str("s"), Bool(TRUE), Bool(FALSE),
                Sym, BigInt(1), Func}

\* the values stored in arrays and under object keys
ElemValues == {Num(1), Str("s"), Undefined}

Arrays == {Arr(items) : items \in SeqsUpTo(ElemValues, MaxArrayLen)}

ValueKeys == {"a", "b", "__proto__"}

Objects ==
  {Obj([i \in 1..Len(ks) |-> [key |-> ks[i], value |-> vals[i]]]) :
     <<ks, vals>> \in {p \in DistinctSeqs(ValueKeys, MaxProps) \X SeqsUpTo(ElemValues, MaxProps) :
                         Len(p[1]) = Len(p[2])}}

Values == Scalars \cup Arrays \cup Objects

KindOps == {"number", "string", "boolean", "null", "undefined", "symbol", "bigint"}

AtomicValidators == {Atomic(op) : op \in KindOps \cup {"any"}}

\* a bound of a range or a length: omitted, or an integer
Bounds == {Undefined} \cup {Num(n) : n \in 0..MaxBound}

NumberRanges ==
  {Validator("numberRange", <<>>, <<>>, min, max, FALSE) : min \in Bounds, max \in Bounds}

Modifiers ==
  {Validator(op, <<v>>, <<>>, Undefined, Undefined, FALSE) :
     op \in {"optional", "nullable"}, v \in AtomicValidators}

\* the validators of the fields of a shape
FieldValidators == {Atomic("string"), Atomic("number"), Atomic("undefined")}

ShapeKeys == {"a", "b", "__proto__"}

ObjectValidators ==
  {Validator("object", p[2], p[1], Undefined, Undefined, exact) :
     p \in {q \in DistinctSeqs(ShapeKeys, MaxShape) \X SeqsUpTo(FieldValidators, MaxShape) :
              Len(q[1]) = Len(q[2])},
     exact \in BOOLEAN}

\* the members of a union, an intersection or a tuple
ListChildren ==
  {Atomic("number"), Atomic("string"),
   Validator("object", <<Atomic("string")>>, <<"a">>, Undefined, Undefined, FALSE),
   Validator("object", <<Atomic("number")>>, <<"b">>, Undefined, Undefined, FALSE)}

ListValidators ==
  {Validator(op, vs, <<>>, Undefined, Undefined, FALSE) :
     op \in {"union", "intersection", "tuple"}, vs \in SeqsUpTo(ListChildren, MaxList)}

\* the element validators of $array, $arrayLength and $record
ElemValidators == {Atomic("number"), Atomic("string"), Atomic("any")}

ArrayValidators ==
  {Validator(op, <<child>>, <<>>, Undefined, Undefined, FALSE) :
     op \in {"array", "record"}, child \in ElemValidators}

ArrayLengths ==
  {Validator("arrayLength", <<child>>, <<>>, min, max, FALSE) :
     min \in Bounds, max \in Bounds, child \in ElemValidators}

\* the validators of strings: the fields def, enums and regexp hold the
\* argument of $const, $enum and $regexp
ConstValidators ==
  {[op |-> "const", vs |-> <<>>, keys |-> <<>>, min |-> Undefined, max |-> Undefined,
    exact |-> FALSE, def |-> def] :
     def \in {Num(1), NaN, Str("s"), Bool(TRUE), Undefined, Sym}}

EnumValidators ==
  {[op |-> "enum", vs |-> <<>>, keys |-> <<>>, min |-> Undefined, max |-> Undefined,
    exact |-> FALSE, enums |-> enums] :
     enums \in {<<>>, << <<"a">> >>, << <<"a">>, <<"a", "b">> >>}}

\* /a/, /a/g, /a/y, /a/gy and /a+/, /a+/g, ...
RegExps ==
  {RegExp(items, FALSE, FALSE, global, sticky) :
     items \in {Rep("a", 1), Plus("a")}, global \in BOOLEAN, sticky \in BOOLEAN}

RegexpValidators ==
  {[op |-> "regexp", vs |-> <<>>, keys |-> <<>>, min |-> Undefined, max |-> Undefined,
    exact |-> FALSE, regexp |-> re] : re \in RegExps}

StringValidators ==
  {Atomic(op) : op \in {"numericString", "email", "uuid", "url"}}
    \cup ConstValidators \cup EnumValidators \cup RegexpValidators

Validators ==
  AtomicValidators \cup NumberRanges \cup Modifiers \cup ObjectValidators
    \cup ListValidators \cup ArrayValidators \cup ArrayLengths \cup StringValidators

\* the strings given to $regexp and $enum
RegexpTexts == {Text(chars) : chars \in SeqsUpTo({"a", "b"}, MaxRegexpLen)}

\* the strings given to $numericString
NumericTexts ==
  {Text(chars) : chars \in SeqsUpTo({"0", "1", "a", "x", "-", " "}, MaxNumericLen)}

\* the strings given to $email
EmailChars == {"a", "@", ".", " "}
EmailTexts == {Text(chars) : chars \in SeqsUpTo(EmailChars, MaxEmailLen)}

\* the strings given to $uuid: a canonical UUID, the same with one character
\* that is no lower-case hexadecimal digit, without its last character and
\* without its hyphens, each between two paddings
UuidChars == {"a", "-", "z"}
UuidText ==
  Rep("1", 8) \o Rep("-", 1) \o Rep("a", 4) \o Rep("-", 1) \o Rep("1", 4) \o Rep("-", 1)
    \o Rep("a", 4) \o Rep("-", 1) \o Rep("1", 12)
UuidCores ==
  LET valid == [i \in 1..Len(UuidText) |-> UuidText[i].cls]
  IN {valid, [valid EXCEPT ![1] = "z"], [valid EXCEPT ![9] = "a"],
      [valid EXCEPT ![Len(valid)] = "z"], SubSeq(valid, 1, Len(valid) - 1),
      [i \in 1..Len(valid) - 4 |-> "1"]}
Paddings == SeqsUpTo(UuidChars, MaxPad)
UuidTexts ==
  {Text(pre \o core \o suf) : pre \in Paddings, core \in UuidCores, suf \in Paddings}

\* the inputs a validator is called on
InputsOf(v) ==
  Values \cup (CASE v.op \in {"regexp", "enum"} -> RegexpTexts
                 [] v.op = "numericString" -> NumericTexts
                 [] v.op = "email" -> EmailTexts
                 [] v.op = "uuid" -> UuidTexts
                 [] OTHER -> {})

\* ----------------------------------------------------------- state machine
\* validator, val: the validator under call and its input; result: what the
\* last call returned; ncalls, history: the number of calls made and what each
\* returned; trace: the calls the last call made to its children and to the
\* host; raised: whether an exception left the last call; lastIndex: the
\* lastIndex of the RegExp object of $regexp; urlParses: whether the host's
\* new URL(val) succeeds
VARIABLES validator, val, result, ncalls, history, trace, raised, lastIndex, urlParses

vars == <<validator, val, result, ncalls, history, trace, raised, lastIndex, urlParses>>

\* a validator has been constructed and an input chosen; nothing is called
Init ==
  /\ validator \in Validators
  /\ val \in InputsOf(validator)
  /\ result = FALSE
  /\ ncalls = 0
  /\ history = <<>>
  /\ trace = <<>>
  /\ raised = FALSE
  /\ lastIndex = 0
  /\ urlParses \in (IF validator.op = "url" /\ string(val) THEN BOOLEAN ELSE {FALSE})

\* validator(val) where validator is $number
CallNumber ==
  /\ validator.op = "number"
  /\ ncalls < MaxCalls
  /\ result' = number(val)
  /\ ncalls' = ncalls + 1
  /\ history' = Append(history, result')
  /\ trace' = <<>>
  /\ raised' = FALSE
  /\ UNCHANGED <<validator, val, lastIndex, urlParses>>

\* validator(val) where validator is $numberRange(...)
CallNumberRange ==
  /\ validator.op = "numberRange"
  /\ ncalls < MaxCalls
  /\ result' = numberRange(validator.min, validator.max, val)
  /\ ncalls' = ncalls + 1
  /\ history' = Append(history, result')
  /\ trace' = <<>>
  /\ raised' = FALSE
  /\ UNCHANGED <<validator, val, lastIndex, urlParses>>

\* validator(val) where validator is $string
CallString ==
  /\ validator.op = "string"
  /\ ncalls < MaxCalls
  /\ result' = string(val)
  /\ ncalls' = ncalls + 1
  /\ history' = Append(history, result')
  /\ trace' = <<>>
  /\ raised' = FALSE
  /\ UNCHANGED <<validator, val, lastIndex, urlParses>>

\* validator(val) where validator is $null
CallNull ==
  /\ validator.op = "null"
  /\ ncalls < MaxCalls
  /\ result' = null(val)
  /\ ncalls' = ncalls + 1
  /\ history' = Append(history, result')
  /\ trace' = <<>>
  /\ raised' = FALSE
  /\ UNCHANGED <<validator, val, lastIndex, urlParses>>

\* validator(val) where validator is $undefined
CallUndefined ==
  /\ validator.op = "undefined"
  /\ ncalls < MaxCalls
  /\ result' = undefined(val)
  /\ ncalls' = ncalls + 1
  /\ history' = Append(history, result')
  /\ trace' = <<>>
  /\ raised' = FALSE
  /\ UNCHANGED <<validator, val, lastIndex, urlParses>>

\* validator(val) where validator is $any
CallAny ==
  /\ validator.op = "any"
  /\ ncalls < MaxCalls
  /\ result' = any(val)
  /\ ncalls' = ncalls + 1
  /\ history' = Append(history, result')
  /\ trace' = <<>>
  /\ raised' = FALSE
  /\ UNCHANGED <<validator, val, lastIndex, urlParses>>

\* validator(val) where validator is $optional(...)
CallOptional ==
  /\ validator.op = "optional"
  /\ ncalls < MaxCalls
  /\ result' = optional(validator.vs[1], val)
  /\ ncalls' = ncalls + 1
  /\ history' = Append(history, result')
  /\ trace' = <<>>
  /\ raised' = FALSE
  /\ UNCHANGED <<validator, val, lastIndex, urlParses>>

\* validator(val) where validator is $nullable(...)
CallNullable ==
  /\ validator.op = "nullable"
  /\ ncalls < MaxCalls
  /\ result' = nullable(validator.vs[1], val)
  /\ ncalls' = ncalls + 1
  /\ history' = Append(history, result')
  /\ trace' = <<>>
  /\ raised' = FALSE
  /\ UNCHANGED <<validator, val, lastIndex, urlParses>>

\* validator(val) where validator is $symbol
CallSymbol ==
  /\ validator.op = "symbol"
  /\ ncalls < MaxCalls
  /\ result' = symbol(val)
  /\ ncalls' = ncalls + 1
  /\ history' = Append(history, result')
  /\ trace' = <<>>
  /\ raised' = FALSE
  /\ UNCHANGED <<validator, val, lastIndex, urlParses>>

\* validator(val) where validator is $bigint
CallBigint ==
  /\ validator.op = "bigint"
  /\ ncalls < MaxCalls
  /\ result' = bigint(val)
  /\ ncalls' = ncalls + 1
  /\ history' = Append(history, result')
  /\ trace' = <<>>
  /\ raised' = FALSE
  /\ UNCHANGED <<validator, val, lastIndex, urlParses>>

\* validator(val) where validator is $boolean
CallBoolean ==
  /\ validator.op = "boolean"
  /\ ncalls < MaxCalls
  /\ result' = boolean(val)
  /\ ncalls' = ncalls + 1
  /\ history' = Append(history, result')
  /\ trace' = <<>>
  /\ raised' = FALSE
  /\ UNCHANGED <<validator, val, lastIndex, urlParses>>

\* validator(val) where validator is $intersection(...)
CallIntersection ==
  /\ validator.op = "intersection"
  /\ ncalls < MaxCalls
  /\ result' = intersection(validator.vs, val)
  /\ ncalls' = ncalls + 1
  /\ history' = Append(history, result')
  /\ trace' = intersectionCalls(validator.vs, val)
  /\ raised' = FALSE
  /\ UNCHANGED <<validator, val, lastIndex, urlParses>>

\* validator(val) where validator is $union(...)
CallUnion ==
  /\ validator.op = "union"
  /\ ncalls < MaxCalls
  /\ result' = union(validator.vs, val)
  /\ ncalls' = ncalls + 1
  /\ history' = Append(history, result')
  /\ trace' = unionCalls(validator.vs, val)
  /\ raised' = FALSE
  /\ UNCHANGED <<validator, val, lastIndex, urlParses>>

\* validator(val) where validator is $object(...)
CallObject ==
  /\ validator.op = "object"
  /\ ncalls < MaxCalls
  /\ result' = object(validator.keys, validator.vs, validator.exact, val)
  /\ ncalls' = ncalls + 1
  /\ history' = Append(history, result')
  /\ trace' = objectCalls(validator.keys, validator.vs, val)
  /\ raised' = FALSE
  /\ UNCHANGED <<validator, val, lastIndex, urlParses>>

\* validator(val) where validator is $array(...)
CallArray ==
  /\ validator.op = "array"
  /\ ncalls < MaxCalls
  /\ result' = array(validator.vs[1], val)
  /\ ncalls' = ncalls + 1
  /\ history' = Append(history, result')
  /\ trace' = <<>>
  /\ raised' = FALSE
  /\ UNCHANGED <<validator, val, lastIndex, urlParses>>

\* validator(val) where validator is $arrayLength(...)
CallArrayLength ==
  /\ validator.op = "arrayLength"
  /\ ncalls < MaxCalls
  /\ result' = arrayLength(validator.max, validator.min, validator.vs[1], val)
  /\ ncalls' = ncalls + 1
  /\ history' = Append(history, result')
  /\ trace' = <<>>
  /\ raised' = FALSE
  /\ UNCHANGED <<validator, val, lastIndex, urlParses>>

\* validator(val) where validator is $record(...)
CallRecord ==
  /\ validator.op = "record"
  /\ ncalls < MaxCalls
  /\ result' = record(validator.vs[1], val)
  /\ ncalls' = ncalls + 1
  /\ history' = Append(history, result')
  /\ trace' = <<>>
  /\ raised' = FALSE
  /\ UNCHANGED <<validator, val, lastIndex, urlParses>>

\* validator(val) where validator is $tuple(...)
CallTuple ==
  /\ validator.op = "tuple"
  /\ ncalls < MaxCalls
  /\ result' = tuple(validator.vs, val)
  /\ ncalls' = ncalls + 1
  /\ history' = Append(history, result')
  /\ trace' = <<>>
  /\ raised' = FALSE
  /\ UNCHANGED <<validator, val, lastIndex, urlParses>>


\* validator(val) where validator is $const(...)
CallConst ==
  /\ validator.op = "const"
  /\ ncalls < MaxCalls
  /\ result' = const(validator.def, val)
  /\ ncalls' = ncalls + 1
  /\ history' = Append(history, result')
  /\ trace' = <<>>
  /\ raised' = FALSE
  /\ UNCHANGED <<validator, val, lastIndex, urlParses>>

\* validator(val) where validator is $numericString
CallNumericString ==
  /\ validator.op = "numericString"
  /\ ncalls < MaxCalls
  /\ result' = numericString(val)
  /\ ncalls' = ncalls + 1
  /\ history' = Append(history, result')
  /\ trace' = <<>>
  /\ raised' = FALSE
  /\ UNCHANGED <<validator, val, lastIndex, urlParses>>

\* validator(val) where validator is $regexp(...): regexp.test reads and
\* writes the lastIndex of the RegExp object the validator holds
CallRegexp ==
  /\ validator.op = "regexp"
  /\ ncalls < MaxCalls
  /\ result' = regexp(validator.regexp, lastIndex, val).ret
  /\ lastIndex' = regexp(validator.regexp, lastIndex, val).lastIndex
  /\ ncalls' = ncalls + 1
  /\ history' = Append(history, result')
  /\ trace' = <<>>
  /\ raised' = FALSE
  /\ UNCHANGED <<validator, val, urlParses>>

\* validator(val) where validator is $email
CallEmail ==
  /\ validator.op = "email"
  /\ ncalls < MaxCalls
  /\ result' = email(val)
  /\ ncalls' = ncalls + 1
  /\ history' = Append(history, result')
  /\ trace' = <<>>
  /\ raised' = FALSE
  /\ UNCHANGED <<validator, val, lastIndex, urlParses>>

\* validator(val) where validator is $uuid
CallUuid ==
  /\ validator.op = "uuid"
  /\ ncalls < MaxCalls
  /\ result' = uuid(val)
  /\ ncalls' = ncalls + 1
  /\ history' = Append(history, result')
  /\ trace' = <<>>
  /\ raised' = FALSE
  /\ UNCHANGED <<validator, val, lastIndex, urlParses>>

\* validator(val) where validator is $url
CallUrl ==
  /\ validator.op = "url"
  /\ ncalls < MaxCalls
  /\ result' = url(val, urlParses).ret
  /\ raised' = url(val, urlParses).raised
  /\ trace' = IF url(val, urlParses).parsed
              THEN <<[at |-> "new URL", ok |-> urlParses]>>
              ELSE <<>>
  /\ ncalls' = ncalls + 1
  /\ history' = Append(history, result')
  /\ UNCHANGED <<validator, val, lastIndex, urlParses>>

\* validator(val) where validator is $enum(...)
CallEnum ==
  /\ validator.op = "enum"
  /\ ncalls < MaxCalls
  /\ result' = enum(validator.enums, val)
  /\ ncalls' = ncalls + 1
  /\ history' = Append(history, result')
  /\ trace' = <<>>
  /\ raised' = FALSE
  /\ UNCHANGED <<validator, val, lastIndex, urlParses>>

Next ==
  \/ CallConst
  \/ CallNumericString
  \/ CallRegexp
  \/ CallEmail
  \/ CallUuid
  \/ CallUrl
  \/ CallEnum
  \/ CallNumber
  \/ CallNumberRange
  \/ CallString
  \/ CallNull
  \/ CallUndefined
  \/ CallAny
  \/ CallOptional
  \/ CallNullable
  \/ CallSymbol
  \/ CallBigint
  \/ CallBoolean
  \/ CallIntersection
  \/ CallUnion
  \/ CallObject
  \/ CallArray
  \/ CallArrayLength
  \/ CallRecord
  \/ CallTuple

Spec == Init /\ [][Next]_vars

\* ------------------------------------------------------------------ claims

\* what the claims call a non-null object-kind value
NonNullObject(x) == x.kind \in {"object", "array"}

\* the set of own keys of x
OwnKeySet(x) == {ObjectKeys(x)[i] : i \in 1..Len(ObjectKeys(x))}

\* the set of keys a shape declares
DeclaredKeySet(keys) == {keys[i] : i \in 1..Len(keys)}

\* x >= m and x <= m on a number x and an integer bound m, as the claims
\* read them: no comparison holds of NaN
AtLeast(x, m) == x.str # "NaN" /\ x.num >= m.num
AtMost(x, m) == x.str # "NaN" /\ x.num <= m.num

Called(op) == ncalls > 0 /\ validator.op = op

\* C1: $union(vs)(x) is true iff some member of vs accepts x, and
\* $intersection(vs)(x) is true iff every member of vs accepts x; for two
\* validators a and b these are a(x) OR b(x) and a(x) AND b(x).
C1_UnionIntersection ==
  /\ Called("union") =>
       result = (\E i \in 1..Len(validator.vs) : Apply(validator.vs[i], val))
  /\ Called("intersection") =>
       result = (\A i \in 1..Len(validator.vs) : Apply(validator.vs[i], val))

\* C1 witness: a union of two validators accepted a value that its first
\* member rejects and its second accepts.
C1_Witness ==
  /\ Called("union")
  /\ Len(validator.vs) = 2
  /\ ~Apply(validator.vs[1], val)
  /\ Apply(validator.vs[2], val)
  /\ result

\* C2 as stated: with exact = false, $object(shape, false)(x) is true iff x
\* is a non-null object-kind value and shape[k] accepts x[k] for every
\* declared key k of shape.
C2_EveryDeclaredKey ==
  (Called("object") /\ ~validator.exact) =>
    result = (/\ NonNullObject(val)
              /\ \A i \in 1..Len(validator.keys) :
                   Apply(validator.vs[i], Get(val, validator.keys[i])))

\* C2 amended: with exact = false, $object(shape, false)(x) is true iff x is
\* a non-null object-kind value and shape[k] accepts x[k] for every declared
\* key k of shape other than __proto__, a property x does not have being
\* validated as undefined; undeclared keys of x never affect the result.
C2_DeclaredKeysButProto ==
  (Called("object") /\ ~validator.exact) =>
    result = (/\ NonNullObject(val)
              /\ \A i \in 1..Len(validator.keys) :
                   validator.keys[i] # "__proto__" =>
                     Apply(validator.vs[i], Get(val, validator.keys[i])))

\* C2 witness: a non-exact shape accepted an object that has an undeclared
\* own key and lacks a declared key whose validator accepts undefined.
C2_Witness ==
  /\ Called("object")
  /\ ~validator.exact
  /\ val.kind = "object"
  /\ \E k \in OwnKeySet(val) : k \notin DeclaredKeySet(validator.keys)
  /\ \E k \in DeclaredKeySet(validator.keys) : k # "__proto__" /\ k \notin OwnKeySet(val)
  /\ result

\* C3: with exact = true, $object(shape, true)(x) is true iff
\* $object(shape, false)(x) is true and x has no own key beyond the keys
\* declared in shape, for every key name, __proto__ included.
C3_ExactIffNoUndeclaredKey ==
  (Called("object") /\ validator.exact) =>
    result = (/\ object(validator.keys, validator.vs, FALSE, val)
              /\ OwnKeySet(val) \subseteq DeclaredKeySet(validator.keys))

\* C4: $optional(v)(x) is true iff x is null, or x is undefined, or v(x) is
\* true.
C4_Optional ==
  Called("optional") =>
    result = (val.kind = "null" \/ val.kind = "undefined" \/ Apply(validator.vs[1], val))

\* C4 witness: $optional(v) accepted undefined although v rejects it.
C4_Witness ==
  /\ Called("optional")
  /\ val.kind = "undefined"
  /\ ~Apply(validator.vs[1], val)
  /\ result

\* C5: $nullable(v)(x) is true iff x is null or v(x) is true, and it
\* differs from $optional(v)(x) exactly when x is undefined and v rejects
\* undefined.
C5_Nullable ==
  Called("nullable") =>
    /\ result = (val.kind = "null" \/ Apply(validator.vs[1], val))
    /\ (result # optional(validator.vs[1], val))
         <=> (val.kind = "undefined" /\ ~Apply(validator.vs[1], Undefined))

\* C5 witness: $nullable(v) rejected undefined, which v rejects.
C5_Witness ==
  /\ Called("nullable")
  /\ val.kind = "undefined"
  /\ ~Apply(validator.vs[1], val)
  /\ ~result

\* C6: $numberRange({min, max})(x) is true iff x is of kind number and
\* (min is absent or x >= min) and (max is absent or x <= max).
C6_NumberRange ==
  Called("numberRange") =>
    result = (/\ val.kind = "number"
              /\ (validator.min.kind = "undefined" \/ AtLeast(val, validator.min))
              /\ (validator.max.kind = "undefined" \/ AtMost(val, validator.max)))

\* C6 witness: a number equal to both bounds was accepted.
C6_Witness ==
  /\ Called("numberRange")
  /\ validator.min.kind = "number"
  /\ val = validator.min
  /\ val = validator.max
  /\ result

\* C7: $tuple(cs)(x) is true iff x is an array whose length is the length
\* of cs and cs[i] accepts x[i] at every position i.
C7_Tuple ==
  Called("tuple") =>
    result = (/\ val.kind = "array"
              /\ Len(val.items) = Len(validator.vs)
              /\ \A i \in 1..Len(val.items) : Apply(validator.vs[i], val.items[i]))

\* C7 witness: an array shorter than cs was rejected although each of its
\* elements satisfies the validator of its position.
C7_Witness ==
  /\ Called("tuple")
  /\ val.kind = "array"
  /\ Len(val.items) > 0
  /\ Len(val.items) < Len(validator.vs)
  /\ \A i \in 1..Len(val.items) : Apply(validator.vs[i], val.items[i])
  /\ ~result

\* C8: at most one of $number, $string, $boolean, $null, $undefined,
\* $symbol, $bigint accepts a value, and none of them accepts an object or
\* an array.
C8_KindExclusive ==
  (ncalls > 0 /\ validator.op \in KindOps) =>
    /\ result => \A op \in KindOps \ {validator.op} : ~Apply(Atomic(op), val)
    /\ val.kind \in {"object", "array"} => ~result

\* C8 witness: $null accepted null, which $undefined rejects.
C8_Witness ==
  /\ Called("null")
  /\ val.kind = "null"
  /\ result
  /\ ~undefined(val)

\* C9: $arrayLength({min, max, child: c})(x) is true iff x is an array,
\* every element of x satisfies c, (min is absent or length(x) >= min) and
\* (max is absent or length(x) <= max).
C9_ArrayLength ==
  Called("arrayLength") =>
    result = (/\ val.kind = "array"
              /\ \A i \in 1..Len(val.items) : Apply(validator.vs[1], val.items[i])
              /\ (validator.min.kind = "undefined" \/ Len(val.items) >= validator.min.num)
              /\ (validator.max.kind = "undefined" \/ Len(val.items) <= validator.max.num))

\* C9 witness: an array whose length is within both bounds was rejected
\* because one element fails the child.
C9_Witness ==
  /\ Called("arrayLength")
  /\ val.kind = "array"
  /\ validator.min.kind = "number"
  /\ validator.max.kind = "number"
  /\ Len(val.items) >= validator.min.num
  /\ Len(val.items) <= validator.max.num
  /\ \E i \in 1..Len(val.items) : ~Apply(validator.vs[1], val.items[i])
  /\ ~result

\* C10: $record(v)(x) is true iff x is a non-null object-kind value and v
\* accepts the value of every own key of x other than __proto__.
C10_Record ==
  Called("record") =>
    result = (/\ NonNullObject(val)
              /\ \A i \in 1..Len(ObjectEntries(val)) :
                   ObjectEntries(val)[i].key # "__proto__" =>
                     Apply(validator.vs[1], ObjectEntries(val)[i].value))

\* C10 witness: a record was accepted although the value under its own key
\* __proto__ fails v.
C10_Witness ==
  /\ Called("record")
  /\ val.kind = "object"
  /\ \E i \in 1..Len(val.props) :
       val.props[i].key = "__proto__" /\ ~Apply(validator.vs[1], val.props[i].value)
  /\ result

\* C11: any two calls v(x) of the same validator on the same value return
\* the same boolean, whatever calls were made before.
C11_SameInputSameOutput ==
  \A i, j \in 1..Len(history) : history[i] = history[j]

\* C12: no call raises and every call returns a boolean; $url returns false
\* for a non-string without calling the host's parser, and for a string
\* returns true exactly when the host's parse succeeds.
C12_Total ==
  ncalls > 0 =>
    /\ ~raised
    /\ result \in BOOLEAN
    /\ validator.op = "url" =>
         IF val.kind = "string"
         THEN trace = <<[at |-> "new URL", ok |-> urlParses]>> /\ result = urlParses
         ELSE trace = <<>> /\ ~result

\* C12 witness: $url returned false, without raising, for a string the
\* host's parser fails on.
C12_Witness ==
  /\ Called("url")
  /\ val.kind = "string"
  /\ ~urlParses
  /\ Len(trace) = 1
  /\ ~raised
  /\ ~result

\* the characters chars[i], chars[i + 1], ...
From(chars, i) == SubSeq(chars, i, Len(chars))

\* C13 as stated: $numericString rejects every non-string and accepts a
\* string iff it begins with a decimal digit (an integer prefix, whatever
\* follows it).
C13_LeadingDigit ==
  Called("numericString") =>
    result = (/\ val.kind = "string"
              /\ Len(Chars(val)) > 0
              /\ Chars(val)[1] \in DecimalDigits)

\* C13 amended: $numericString rejects every non-string and accepts a string
\* iff, after leading white space and one optional sign, it continues with a
\* decimal digit, or with the prefix 0x or 0X and a hexadecimal digit.
C13_ParseIntPrefix ==
  Called("numericString") =>
    result = (/\ val.kind = "string"
              /\ \E n \in 0..Len(Chars(val)), sign \in {<<>>, <<"+">>, <<"-">>} :
                   LET rest == From(Chars(val), n + Len(sign) + 1)
                       prefixed == Len(rest) >= 2 /\ rest[1] = "0" /\ rest[2] \in {"x", "X"}
                   IN /\ \A i \in 1..n : Chars(val)[i] \in WhiteSpace
                      /\ n + Len(sign) <= Len(Chars(val))
                      /\ SubSeq(Chars(val), n + 1, n + Len(sign)) = sign
                      /\ IF prefixed
                         THEN Len(rest) >= 3 /\ rest[3] \in HexDigits
                         ELSE Len(rest) >= 1 /\ rest[1] \in DecimalDigits)

\* C13 witness: a string that begins with a sign was accepted.
C13_Witness ==
  /\ Called("numericString")
  /\ val.kind = "string"
  /\ Len(Chars(val)) > 1
  /\ Chars(val)[1] = "-"
  /\ result

\* the positions of the shape entries not named __proto__, in order
NonProto(keys) == SelectSeq([i \in 1..Len(keys) |-> i], LAMBDA i : keys[i] # "__proto__")

\* C14: a shape entry named __proto__ is skipped: its validator is not
\* called, and $object(shape, exact)(x) is what the shape without that entry
\* gives, for both values of exact.
C14_ProtoEntrySkipped ==
  Called("object") =>
    /\ \A i \in 1..Len(trace) : trace[i].at # "__proto__"
    /\ result = object([i \in 1..Len(NonProto(validator.keys)) |->
                          validator.keys[NonProto(validator.keys)[i]]],
                       [i \in 1..Len(NonProto(validator.keys)) |->
                          validator.vs[NonProto(validator.keys)[i]]],
                       validator.exact, val)

\* C14 witness: a shape was accepted although its entry __proto__ has a
\* validator that rejects the __proto__ property of the value.
C14_Witness ==
  /\ Called("object")
  /\ \E i \in 1..Len(validator.keys) :
       /\ validator.keys[i] = "__proto__"
       /\ ~Apply(validator.vs[i], Get(val, "__proto__"))
  /\ Len(trace) > 0
  /\ result

\* C15: $intersection(vs)(x) calls every validator of vs once, in list
\* order, also after a rejection, and returns false iff one of these calls
\* returned false.
C15_IntersectionCallsAll ==
  Called("intersection") =>
    /\ trace = [i \in 1..Len(validator.vs) |->
                  [at |-> i, ok |-> Apply(validator.vs[i], val)]]
    /\ (~result) <=> (\E i \in 1..Len(trace) : ~trace[i].ok)

\* C15 witness: the second validator was called after the first rejected.
C15_Witness ==
  /\ Called("intersection")
  /\ Len(trace) = 2
  /\ ~trace[1].ok
  /\ trace[2].at = 2
  /\ ~result

\* the sequence vs reordered by the permutation p of its positions
Reordered(vs, p) == [i \in 1..Len(vs) |-> vs[p[i]]]

\* C16: $union(vs)(x) calls the validators in list order up to and including
\* the first that accepts, each once and none after it, and every reordering
\* of vs gives the same result.
C16_UnionShortCircuit ==
  Called("union") =>
    LET accepting == {i \in 1..Len(validator.vs) : Apply(validator.vs[i], val)}
        last == IF accepting = {} THEN Len(validator.vs)
                ELSE CHOOSE i \in accepting : \A j \in accepting : i <= j
    IN /\ trace = [i \in 1..last |-> [at |-> i, ok |-> Apply(validator.vs[i], val)]]
       /\ \A p \in Permutations(1..Len(validator.vs)) :
            union(Reordered(validator.vs, p), val) = result

\* C16 witness: the first validator accepted and the second, which rejects
\* the value, was not called.
C16_Witness ==
  /\ Called("union")
  /\ Len(validator.vs) = 2
  /\ ~Apply(validator.vs[2], val)
  /\ trace = <<[at |-> 1, ok |-> TRUE]>>
  /\ result

\* the strings that contain the string x between two paddings over chars
Superstrings(x, chars) ==
  {Text(pre \o Chars(x) \o suf) : pre \in SeqsUpTo(chars, MaxPad), suf \in SeqsUpTo(chars, MaxPad)}

\* C17 as stated: whenever $uuid or $email accepts a string, it accepts
\* every string that contains it as a contiguous substring.
C17_SuperstringsAccepted ==
  /\ (Called("uuid") /\ result) => \A t \in Superstrings(val, UuidChars) : uuid(t)
  /\ (Called("email") /\ result) => \A t \in Superstrings(val, EmailChars) : email(t)

\* C17 amended: whenever $uuid accepts a string, it accepts every string
\* that contains it as a contiguous substring; $email matches the whole
\* string, and rejects an accepted string with a white-space character or an
\* @ prepended or appended.
C17_UuidSuperstringsAccepted ==
  /\ (Called("uuid") /\ result) => \A t \in Superstrings(val, UuidChars) : uuid(t)
  /\ (Called("email") /\ result) =>
       \A c \in WhiteSpace \cup {"@"} :
         ~email(Text(<<c>> \o Chars(val))) /\ ~email(Text(Chars(val) \o <<c>>))

\* C17 witness: $uuid accepted a string longer than a UUID.
C17_Witness ==
  /\ Called("uuid")
  /\ Len(Chars(val)) > Len(UuidText)
  /\ result

\* C18: a $numberRange or an $arrayLength constructed with min > max rejects
\* every value, without raising.
C18_EmptyRangeRejects ==
  ((Called("numberRange") \/ Called("arrayLength"))
     /\ validator.min.kind = "number" /\ validator.max.kind = "number"
     /\ validator.min.num > validator.max.num) =>
    ~result /\ ~raised

\* C18 witness: a range with min > max rejected a number that is at most
\* min and at least max.
C18_Witness ==
  /\ Called("numberRange")
  /\ validator.min.kind = "number"
  /\ validator.max.kind = "number"
  /\ validator.min.num > validator.max.num
  /\ val.kind = "number"
  /\ val.str # "NaN"
  /\ val.num <= validator.min.num
  /\ val.num >= validator.max.num
  /\ ~result
  /\ ~raised

====
